---- MODULE Spec2Model ----
(***************************************************************************)
(* Model of export_repo.py: the tracked files of a repository are read     *)
(* into one flat line sequence (read_all_lines), which write_exports cuts  *)
(* into chunks of alternating size 225/180, padding the last chunk, and    *)
(* writes as export/part_NNN.txt.                                          *)
(*                                                                         *)
(* A string is modelled as a sequence of tokens (short strings); the       *)
(* newline character is the token NL.  A line is such a sequence; a file   *)
(* is a sequence of lines.  One action is one iteration of a loop of the   *)
(* program (one file read, one chunk written) or one step of main.         *)
(***************************************************************************)
EXTENDS Integers, Sequences, FiniteSets, TLC

VARIABLES
    fs,          \* the working tree and export directory: path -> sequence of lines
    git_index,   \* the set of paths git tracks (what `git ls-files` lists)
    fail_at,     \* path -> after how many lines a read of it raises (NoFail: never)
    pc,          \* position of main: "start", "read", "write", "done", "aborted"
    repo_files,  \* main's repo_files / read_all_lines' file_list
    file_pos,    \* number of paths of file_list the for loop has processed
    lines,       \* the line sequence built by read_all_lines
    index,       \* write_exports' index
    pos,         \* write_exports' pos
    stdout,      \* the messages printed by this run
    opened,      \* the out_paths this run opened for writing, in order
    run,         \* number of the current run of the script
    last_export  \* the export directory as the last completed run left it (NoExport: none yet)

vars == <<fs, git_index, fail_at, pc, repo_files, file_pos, lines, index, pos,
          stdout, opened, run, last_export>>

----------------------------------------------------------------------------
(* Bounds of the model *)

\* content lengths 0..MaxSmall are tried for every source file
MaxSmall == 1
\* a read fails on open (0) or after 1..MaxFailAt lines
MaxFailAt == 1
\* units part_001..part_00<MaxStale> may be present before the first run
MaxStale == 4
\* a failed write leaves 0..MaxPartial lines of the chunk in the unit
MaxPartial == 1
\* the script is run at most MaxRuns times in a row
MaxRuns == 2

(* Program constants *)
SIZE_ODD == 225
SIZE_EVEN == 180

NL == "\n"
NoFail == -1
\* the value of last_export before any run has completed: no directory at all
NoExport == [q \in {<<"no export">>} |-> <<>>]

----------------------------------------------------------------------------
(* Paths *)

SrcA == <<"a.py">>
SrcB == <<"b.txt">>
Script == <<"export_repo.py">>

\* f"{index:03d}": the decimal digits of index, zero-padded to at least 3
RECURSIVE Digits(_)
Digits(n) == IF n < 10 THEN <<ToString(n)>> ELSE Digits(n \div 10) \o <<ToString(n % 10)>>

Pad3(i) ==
    LET d == Digits(i)
    IN  IF Len(d) >= 3 THEN d ELSE [k \in 1..(3 - Len(d)) |-> "0"] \o d

\* export_root / f"part_{index:03d}.txt" with export_root = Path("export")
OutPath(i) == <<"export", "/", "part_">> \o Pad3(i) \o <<".txt">>

\* the paths of the model, in the byte order Python's sorted() and git use
\* ("export/..." < "export_repo.py" since "/" < "_")
PathOrder == <<SrcA, SrcB, OutPath(1), Script>>

Paths == {PathOrder[i] : i \in 1..Len(PathOrder)}

Rank(path) == CHOOSE i \in 1..Len(PathOrder) : PathOrder[i] = path

\* f.startswith("export/")
StartsWithExport(f) == Len(f) >= 2 /\ f[1] = "export" /\ f[2] = "/"

\* faulty variant of Keep: the units under export/ are not excluded
KeepExports(f) == f # Script

\* the filter of get_repo_files
Keep(f) == ~StartsWithExport(f) /\ f # Script

\* sorted(...): insertion of each element at its place
RECURSIVE Insert(_, _)
Insert(s, f) ==
    IF s = <<>> THEN <<f>>
    ELSE IF Rank(f) < Rank(Head(s)) THEN <<f>> \o s
    ELSE <<Head(s)>> \o Insert(Tail(s), f)

RECURSIVE Sorted(_)
Sorted(s) == IF s = <<>> THEN <<>> ELSE Insert(Sorted(Tail(s)), Head(s))

\* the output of `git ls-files`, one path per line: the index in git's order
RECURSIVE LsFiles(_)
LsFiles(S) ==
    IF S = {} THEN <<>>
    ELSE LET f == CHOOSE g \in S : \A h \in S : Rank(g) <= Rank(h)
         IN  <<f>> \o LsFiles(S \ {f})

GetRepoFiles(files) == Sorted(SelectSeq(files, Keep))

----------------------------------------------------------------------------
(* read_all_lines *)

\* f"-- {path} --\n"
Header(path) == <<"-- ">> \o path \o <<" --", NL>>

\* line if line.endswith("\n") else line + "\n"
Normalise(line) ==
    IF line # <<>> /\ line[Len(line)] = NL THEN line ELSE line \o <<NL>>

\* open(path) raises when the file is missing or unreadable
OpenFails(path) == path \notin DOMAIN fs \/ fail_at[path] = 0

\* the read of path raises, on open or while iterating over the file
ReadFails(path) == OpenFails(path) \/ fail_at[path] # NoFail

\* the number of lines the for loop over fh appends before the file ends or
\* the exception is raised
LinesRead(path) ==
    IF OpenFails(path) THEN 0
    ELSE IF fail_at[path] = NoFail \/ fail_at[path] > Len(fs[path]) THEN Len(fs[path])
    ELSE fail_at[path]

\* the lines appended inside the try block for path
ContentLines(path) == [j \in 1..LinesRead(path) |-> Normalise(fs[path][j])]

\* faulty variant of FileLines: the separator is appended inside the try
\* block, after the for loop over fh, so a failed read skips it
FileLinesSeparatorInTry(path) ==
    <<Header(path)>> \o ContentLines(path)
        \o (IF ReadFails(path) THEN <<>> ELSE << <<NL>> >>)

\* the lines one iteration of the for loop over file_list appends
FileLines(path) == <<Header(path)>> \o ContentLines(path) \o << <<NL>> >>

\* print(f"Error reading {path}: {exc}")
ErrorMessage(path) ==
    <<"Error reading ">> \o path
        \o <<": ", IF path \notin DOMAIN fs THEN "FileNotFoundError" ELSE "OSError">>

\* what one iteration prints
FileOutput(path) == IF ReadFails(path) THEN <<ErrorMessage(path)>> ELSE <<>>

----------------------------------------------------------------------------
(* write_exports *)

Min(a, b) == IF a < b THEN a ELSE b

\* target = 225 if index % 2 == 1 else 180
Target(i) == IF i % 2 = 1 THEN SIZE_ODD ELSE SIZE_EVEN

\* s[p:p + target], p counted from 0
Slice(s, p, target) == SubSeq(s, p + 1, Min(p + target, Len(s)))

\* faulty variant of Padded: the short chunk is written as it is
PaddedNot(chunk, target) == chunk

\* faulty variant of Padded: the padding lines are put before the slice
PaddedFront(chunk, target) ==
    [j \in 1..(target - Len(chunk)) |-> <<NL>>] \o chunk

\* chunk.extend(["\n"] * (target - len(chunk))) when len(chunk) < target
Padded(chunk, target) ==
    IF Len(chunk) < target
    THEN chunk \o [j \in 1..(target - Len(chunk)) |-> <<NL>>]
    ELSE chunk

\* the chunk written by the iteration that starts with pos = p, index = i
Chunk(s, p, i) == Padded(Slice(s, p, Target(i)), Target(i))

\* faulty variant of LoopContinues: while pos <= len(lines)
LoopContinuesInclusive(p, s) == p <= Len(s)

\* while pos < len(lines)
LoopContinues(p, s) == p < Len(s)

\* faulty variant of NextPos: the cursor moves one line too far
NextPosSkip(p, target) == p + target + 1

\* pos += target
NextPos(p, target) == p + target

\* faulty variant of NextIndex: index += 2
NextIndexSkip(i) == i + 2

\* index += 1
NextIndex(i) == i + 1

\* faulty variant of WriteFile: the other units of the export directory are
\* removed when a unit is written
WriteFileFresh(files, path, content) ==
    [q \in {r \in DOMAIN files : ~StartsWithExport(r)} \cup {path} |->
        IF q = path THEN content ELSE files[q]]

\* the file system after open(path, "w") and a write of content
WriteFile(files, path, content) ==
    [q \in DOMAIN files \cup {path} |-> IF q = path THEN content ELSE files[q]]

\* the content of the export directory
ExportDir(files) ==
    [q \in {r \in DOMAIN files : StartsWithExport(r)} |-> files[q]]

----------------------------------------------------------------------------
(* Initial states *)

\* a text file of n lines; the last line has no newline when ~nl
Content(n, nl) ==
    [j \in 1..n |-> IF j = n /\ ~nl THEN <<ToString(j)>> ELSE <<ToString(j), NL>>]

\* content lengths that put the line sequence on and around the chunk boundaries
BoundaryLens ==
    {SIZE_ODD - 2, SIZE_ODD - 1, SIZE_ODD + SIZE_EVEN - 2, SIZE_ODD + SIZE_EVEN - 1}

FailPoints(n) == {NoFail} \cup {k \in 0..MaxFailAt : k <= n}

\* a unit left in the export directory before the first run
StaleUnit(i) == << <<"stale ", ToString(i), NL>> >>

Tree(srcs, la, nla, lb, nlb, stale) ==
    [q \in srcs \cup {OutPath(i) : i \in 1..stale} |->
        IF q = SrcA THEN Content(la, nla)
        ELSE IF q = SrcB THEN Content(lb, nlb)
        ELSE IF q = Script THEN Content(1, TRUE)
        ELSE StaleUnit(CHOOSE i \in 1..stale : OutPath(i) = q)]

Init ==
    /\ \E S \in SUBSET {SrcA, SrcB},
          la \in (0..MaxSmall) \cup BoundaryLens, lb \in 0..MaxSmall,
          nla \in BOOLEAN, nlb \in BOOLEAN, stale \in {0, MaxStale} :
        /\ SrcA \notin S => la = 0
        /\ SrcB \notin S => lb = 0
        /\ la = 0 => nla
        /\ lb = 0 => nlb
        /\ git_index = S \cup {Script, OutPath(1)}
        /\ fs = Tree(S \cup {Script}, la, nla, lb, nlb, stale)
        /\ \E fa \in FailPoints(la), fb \in FailPoints(lb) :
            /\ SrcA \notin S => fa = NoFail
            /\ SrcB \notin S => fb = NoFail
            /\ fail_at = [q \in Paths |->
                            IF q = SrcA THEN fa ELSE IF q = SrcB THEN fb ELSE NoFail]
    /\ pc = "start"
    /\ repo_files = <<>>
    /\ file_pos = 0
    /\ lines = <<>>
    /\ index = 1
    /\ pos = 0
    /\ stdout = <<>>
    /\ opened = <<>>
    /\ run = 1
    /\ last_export = NoExport

----------------------------------------------------------------------------
(* Actions *)

\* main: repo_files = get_repo_files(), then read_all_lines starts
CallGetRepoFiles ==
    /\ pc = "start"
    /\ repo_files' = GetRepoFiles(LsFiles(git_index))
    /\ lines' = <<>>
    /\ file_pos' = 0
    /\ pc' = "read"
    /\ UNCHANGED <<fs, git_index, fail_at, index, pos, stdout, opened, run, last_export>>

\* one iteration of `for path in file_list`
ReadFile ==
    /\ pc = "read"
    /\ file_pos < Len(repo_files)
    /\ LET path == repo_files[file_pos + 1]
       IN  /\ lines' = lines \o FileLines(path)
           /\ stdout' = stdout \o FileOutput(path)
    /\ file_pos' = file_pos + 1
    /\ UNCHANGED <<fs, git_index, fail_at, pc, repo_files, index, pos, opened, run,
                   last_export>>

\* read_all_lines returns; write_exports creates export_root and sets index, pos
Mkdir ==
    /\ pc = "read"
    /\ file_pos = Len(repo_files)
    /\ index' = 1
    /\ pos' = 0
    /\ pc' = "write"
    /\ UNCHANGED <<fs, git_index, fail_at, repo_files, file_pos, lines, stdout, opened,
                   run, last_export>>

\* export_root.mkdir raises: the run ends before any unit is opened
MkdirFails ==
    /\ pc = "read"
    /\ file_pos = Len(repo_files)
    /\ pc' = "aborted"
    /\ UNCHANGED <<fs, git_index, fail_at, repo_files, file_pos, lines, index, pos,
                   stdout, opened, run, last_export>>

\* one iteration of the while loop, the write succeeding
WriteChunk ==
    /\ pc = "write"
    /\ LoopContinues(pos, lines)
    /\ fs' = WriteFile(fs, OutPath(index), Chunk(lines, pos, index))
    /\ opened' = Append(opened, OutPath(index))
    /\ pos' = NextPos(pos, Target(index))
    /\ index' = NextIndex(index)
    /\ UNCHANGED <<git_index, fail_at, pc, repo_files, file_pos, lines, stdout, run,
                   last_export>>

\* open(out_path, "w") raises: nothing is written and the exception ends the run
OpenOutFails ==
    /\ pc = "write"
    /\ LoopContinues(pos, lines)
    /\ pc' = "aborted"
    /\ UNCHANGED <<fs, git_index, fail_at, repo_files, file_pos, lines, index, pos,
                   stdout, opened, run, last_export>>

\* faulty variant of WriteFails: the exception is swallowed and the loop goes on
WriteFailsIgnored ==
    /\ pc = "write"
    /\ LoopContinues(pos, lines)
    /\ \E n \in 0..MaxPartial :
        fs' = WriteFile(fs, OutPath(index), SubSeq(Chunk(lines, pos, index), 1, n))
    /\ opened' = Append(opened, OutPath(index))
    /\ pos' = NextPos(pos, Target(index))
    /\ index' = NextIndex(index)
    /\ UNCHANGED <<git_index, fail_at, pc, repo_files, file_pos, lines, stdout, run,
                   last_export>>

\* the unit is opened (created or truncated) and the write raises after n lines
WriteFails ==
    /\ pc = "write"
    /\ LoopContinues(pos, lines)
    /\ \E n \in 0..MaxPartial :
        fs' = WriteFile(fs, OutPath(index), SubSeq(Chunk(lines, pos, index), 1, n))
    /\ opened' = Append(opened, OutPath(index))
    /\ pc' = "aborted"
    /\ UNCHANGED <<git_index, fail_at, repo_files, file_pos, lines, index, pos, stdout,
                   run, last_export>>

\* the while loop ends, write_exports returns and main prints its message
Complete ==
    /\ pc = "write"
    /\ ~LoopContinues(pos, lines)
    /\ stdout' = Append(stdout, <<"Export complete">>)
    /\ pc' = "done"
    /\ UNCHANGED <<fs, git_index, fail_at, repo_files, file_pos, lines, index, pos,
                   opened, run, last_export>>

\* the script is started again on the same tree
RunAgain ==
    /\ pc \in {"done", "aborted"}
    /\ run < MaxRuns
    /\ run' = run + 1
    /\ last_export' = IF pc = "done" THEN ExportDir(fs) ELSE last_export
    /\ pc' = "start"
    /\ repo_files' = <<>>
    /\ file_pos' = 0
    /\ lines' = <<>>
    /\ index' = 1
    /\ pos' = 0
    /\ stdout' = <<>>
    /\ opened' = <<>>
    /\ UNCHANGED <<fs, git_index, fail_at>>

Next ==
    \/ CallGetRepoFiles
    \/ ReadFile
    \/ Mkdir
    \/ MkdirFails
    \/ WriteChunk
    \/ OpenOutFails
    \/ WriteFails
    \/ Complete
    \/ RunAgain

Spec == Init /\ [][Next]_vars

\* One run of the script on a tree that tracks a.py only, the export
\* directory empty.  The interpreter executes the program step by step, so a
\* step that can be taken is taken.
InitOnce ==
    /\ Init
    /\ git_index = {SrcA, Script, OutPath(1)}
    /\ \A i \in 1..MaxStale : OutPath(i) \notin DOMAIN fs

NextOnce ==
    \/ CallGetRepoFiles
    \/ ReadFile
    \/ Mkdir
    \/ MkdirFails
    \/ WriteChunk
    \/ OpenOutFails
    \/ WriteFails
    \/ Complete

OnceSpec == InitOnce /\ [][NextOnce]_vars /\ WF_vars(NextOnce)


----------------------------------------------------------------------------
(* Definitions the properties are stated with *)

\* the sum of the targets of chunks 1..k
RECURSIVE TotalTarget(_)
TotalTarget(k) == IF k = 0 THEN 0 ELSE TotalTarget(k - 1) + Target(k)

\* the least k such that the targets of chunks 1..k sum to at least n
NumChunks(n) ==
    CHOOSE k \in 0..n : TotalTarget(k) >= n /\ \A j \in 0..(k - 1) : TotalTarget(j) < n

\* the value of a decimal digit
DigitValue(tok) == CHOOSE d \in 0..9 : ToString(d) = tok

RECURSIVE DigitsValue(_)
DigitsValue(d) ==
    IF d = <<>> THEN 0
    ELSE 10 * DigitsValue(SubSeq(d, 1, Len(d) - 1)) + DigitValue(d[Len(d)])

\* the index NNN of the unit export/part_NNN.txt
UnitIndex(path) == DigitsValue(SubSeq(path, 4, Len(path) - 1))

\* the number of chunks the while loop has emitted
Emitted == index - 1

\* the lines of the units part_001..part_k, concatenated in index order
RECURSIVE ConcatUnits(_)
ConcatUnits(k) == IF k = 0 THEN <<>> ELSE ConcatUnits(k - 1) \o fs[OutPath(k)]

\* n padding lines
Padding(n) == [j \in 1..n |-> <<NL>>]

\* write_exports is running or has returned
Writing == pc \in {"write", "done"}

----------------------------------------------------------------------------
(* write_exports: the chunks *)

\* C1: for a non-empty line sequence, the lines of the emitted chunks,
\* concatenated in increasing index order, are the line sequence followed by
\* padding lines only: without the padding they are the line sequence, no
\* line lost, duplicated or reordered.  While the loop runs the concatenation
\* is a prefix of that.
C1_ChunksReproduceLines ==
    (Writing /\ lines # <<>>) =>
        LET all == ConcatUnits(Emitted)
            real == Min(Len(all), Len(lines))
        IN  /\ all = SubSeq(lines, 1, real) \o Padding(Len(all) - real)
            /\ pc = "done" => Len(all) >= Len(lines)

\* three chunks were written, the last one padded, and the run completed
C1_Witness ==
    /\ pc = "done"
    /\ Emitted = 3
    /\ Len(lines) > SIZE_ODD + SIZE_EVEN
    /\ Len(ConcatUnits(Emitted)) > Len(lines)

\* C2: every emitted chunk, the last one included, has exactly 225 lines when
\* its index is odd and 180 lines when it is even.
C2_ChunkLengthIsTarget ==
    Writing =>
        \A i \in 1..Emitted :
            Len(fs[OutPath(i)]) = IF i % 2 = 1 THEN 225 ELSE 180

\* the run completed with two chunks, the second holding fewer than 180
\* lines of the line sequence
C2_Witness ==
    /\ pc = "done"
    /\ Emitted = 2
    /\ Len(lines) < SIZE_ODD + SIZE_EVEN

\* the number of chunks emitted is at most, and once the loop has ended
\* exactly, the least k whose targets 1..k sum to at least n = len(lines);
\* pos is the sum of the targets of the chunks emitted
ChunkCount ==
    LET n == Len(lines)
    IN  /\ Writing => Emitted <= NumChunks(n) /\ pos = TotalTarget(Emitted)
        /\ pc = "done" =>
            /\ Emitted = NumChunks(n)
            /\ Emitted > 0 => TotalTarget(Emitted - 1) < n
            /\ n = 0 => Emitted = 0 /\ opened = <<>>
            /\ n = SIZE_ODD => Emitted = 1 /\ fs[OutPath(1)] = lines
            /\ n = SIZE_ODD + 1 =>
                /\ Emitted = 2
                /\ fs[OutPath(1)] = SubSeq(lines, 1, SIZE_ODD)
                /\ fs[OutPath(2)] = <<lines[n]>> \o Padding(SIZE_EVEN - 1)

C4_IndicesContiguous ==
    /\ \A i \in 1..Len(opened) :
        /\ StartsWithExport(opened[i])
        /\ UnitIndex(opened[i]) = i
        /\ opened[i] \in DOMAIN fs
    /\ Writing => Len(opened) = Emitted

\* three units have been opened
C4_Witness == Len(opened) = 3 /\ UnitIndex(opened[3]) = 3

\* C5: a chunk that is not the last one holds lines of the line sequence
\* only; the last chunk holds the rest of the sequence, at least one line,
\* followed by padding lines only.
C5_PaddingOnlyAtEnd ==
    Writing =>
        \A i \in 1..Emitted :
            LET off == TotalTarget(i - 1)
                chunk == fs[OutPath(i)]
                real == Min(Len(chunk), Len(lines) - off)
            IN  /\ real > 0
                /\ SubSeq(chunk, 1, real) = SubSeq(lines, off + 1, off + real)
                /\ \A j \in (real + 1)..Len(chunk) : chunk[j] = <<NL>>
                /\ i < Emitted => real = Len(chunk)

\* the run completed with a full first chunk and a padded last chunk
C5_Witness ==
    /\ pc = "done"
    /\ Emitted >= 2
    /\ TotalTarget(Emitted) > Len(lines)
    /\ fs[OutPath(1)] = SubSeq(lines, 1, SIZE_ODD)

----------------------------------------------------------------------------
(* read_all_lines *)

\* message m is the diagnostic of a failed read of path
Diagnoses(m, path) ==
    /\ Len(m) > Len(path) + 1
    /\ m[1] = "Error reading "
    /\ SubSeq(m, 2, Len(path) + 1) = path

\* C6: an iteration of read_all_lines whose read fails, on open or after
\* some lines have been read, appends the header line and the separator
\* line only, and prints a diagnostic that names the file.
C6_FailedReadOnlyHeader ==
    [][(pc = "read" /\ file_pos' = file_pos + 1
            /\ ReadFails(repo_files[file_pos + 1]))
        => LET path == repo_files[file_pos + 1]
           IN  /\ lines' = lines \o <<Header(path), <<NL>>>>
               /\ Len(stdout') = Len(stdout) + 1
               /\ Diagnoses(stdout'[Len(stdout')], path)]_vars

\* lines from position q on consists of the contributions of the files
\* i..file_pos of repo_files, one after the other: the header of the file,
\* the first c lines of its content for some c (all of them when its read
\* does not fail), each ending with one newline, and one separator line
RECURSIVE FilesFrom(_, _)
FilesFrom(i, q) ==
    IF i > file_pos THEN q = Len(lines) + 1
    ELSE LET path == repo_files[i]
             raw == IF path \in DOMAIN fs THEN fs[path] ELSE <<>>
         IN  /\ q <= Len(lines)
             /\ lines[q] = <<"-- ">> \o path \o <<" --", NL>>
             /\ \E c \in 0..Len(raw) :
                 /\ fail_at[path] = NoFail => c = Len(raw)
                 /\ q + c + 1 <= Len(lines)
                 /\ \A j \in 1..c :
                     /\ lines[q + j] \in {raw[j], raw[j] \o <<NL>>}
                     /\ lines[q + j][Len(lines[q + j])] = NL
                 /\ lines[q + c + 1] = <<NL>>
                 /\ FilesFrom(i + 1, q + c + 2)

\* the paths of repo_files whose read fails, in list order
FailedFiles ==
    SelectSeq(SubSeq(repo_files, 1, file_pos),
              LAMBDA f : f \notin DOMAIN fs \/ fail_at[f] # NoFail)

\* C7: whatever reads fail, read_all_lines goes through the whole list in
\* list order: the line sequence is, file after file, one header line, the
\* content lines read and one separator line; the run leaves read_all_lines
\* only with every path processed, and prints one diagnostic per failed read.
C7_EveryFileHeaderAndSeparator ==
    /\ file_pos <= Len(repo_files)
    /\ FilesFrom(1, 1)
    /\ pc \in {"write", "done", "aborted"} => file_pos = Len(repo_files)
    /\ pc \in {"read", "write", "aborted"} =>
        /\ Len(stdout) = Len(FailedFiles)
        /\ \A i \in 1..Len(stdout) : Diagnoses(stdout[i], FailedFiles[i])

\* the run completed on two files, the read of the first failed and the
\* second was read in full
C7_Witness ==
    /\ pc = "done"
    /\ Len(repo_files) = 2
    /\ ReadFails(repo_files[1])
    /\ ~ReadFails(repo_files[2])
    /\ Len(fs[repo_files[2]]) > 0

----------------------------------------------------------------------------
(* write failures, repeated runs and the other units *)

\* chunk i of the line sequence: its slice of lines, padded to the target
FullChunk(i) ==
    [j \in 1..Target(i) |->
        IF TotalTarget(i - 1) + j <= Len(lines)
        THEN lines[TotalTarget(i - 1) + j]
        ELSE <<NL>>]

Completed == \E i \in 1..Len(stdout) : stdout[i] = <<"Export complete">>

\* C8: a unit that was opened and does not hold its full chunk is the unit j
\* whose write failed: the run is aborted there, with index still j, no
\* later unit opened and no completion message; and in an aborted run the
\* units 1..j-1 hold their full chunks.
C8_WriteFailureAborts ==
    /\ \A i \in 1..Len(opened) :
        fs[opened[i]] # FullChunk(i) =>
            /\ pc = "aborted"
            /\ i = Len(opened)
            /\ i = index
    /\ pc = "aborted" =>
        /\ ~Completed
        /\ Len(opened) <= index
        /\ \A i \in 1..Len(opened) : UnitIndex(opened[i]) <= index
        /\ \A i \in 1..(index - 1) : fs[OutPath(i)] = FullChunk(i)

\* the write of unit 2 failed after unit 1 was written
C8_Witness ==
    /\ pc = "aborted"
    /\ index = 2
    /\ Len(opened) = 2
    /\ fs[OutPath(2)] # FullChunk(2)
    /\ fs[OutPath(1)] = FullChunk(1)

\* C9: a run that completes after an earlier completed run on the same tree
\* leaves the export directory as that run left it: the same units with the
\* same content.
C9_SecondRunSameUnits ==
    (pc = "done" /\ last_export # NoExport) => ExportDir(fs) = last_export

\* a second run completed, writing at least two chunks
C9_Witness ==
    /\ pc = "done"
    /\ run = 2
    /\ last_export # NoExport
    /\ Emitted >= 2

\* C10: no step removes a file, and a step creates or changes no file but
\* the unit of the current index, which is one of the chunks 1..k of the
\* run: units with an index greater than k stay as they were.
C10_OnlyCurrentUnitsWritten ==
    [][/\ DOMAIN fs \subseteq DOMAIN fs'
       /\ \A q \in DOMAIN fs' :
            (q \notin DOMAIN fs \/ fs'[q] # fs[q]) =>
                /\ pc = "write"
                /\ q = OutPath(index)
                /\ index <= NumChunks(Len(lines))]_vars

\* a run on an empty line sequence completed and the units of an earlier
\* run are still there
C10_Witness ==
    /\ pc = "done"
    /\ lines = <<>>
    /\ \A i \in 1..MaxStale :
        OutPath(i) \in DOMAIN fs /\ fs[OutPath(i)] = StaleUnit(i)

====
